---------------------------- MODULE Spec2Model ----------------------------
(***************************************************************************)
(* Model of baudrate.py: the Baudrate object (catalog cursor, cancellation *)
(* flag, serial channel), the detection loop Baudrate.Detect run by the    *)
(* main task, and the keypress thread Baudrate.HandleKeypress.             *)
(***************************************************************************)
EXTENDS Integers, Sequences, FiniteSets, TLC

(***************************************************************************)
(* Bounds of the model.                                                    *)
(***************************************************************************)
\* the clock runs from 1 to MaxTime
MaxTime == 5
\* the timeout handed to the constructor (READ_TIMEOUT is its default)
Timeout == 2
\* the largest threshold handed to the constructor (MIN_CHAR_COUNT default)
MaxThreshold == 3
\* keys the operator types during one run
MaxKeys == 3

(***************************************************************************)
(* Python values.  serial.read returns a bytes object, the character       *)
(* tables of the class hold str objects; objects of different types never  *)
(* compare equal.                                                          *)
(***************************************************************************)
Str(x) == [t |-> "str", v |-> <<x>>]
Bytes(x) == [t |-> "bytes", v |-> <<x>>]
EmptyBytes == [t |-> "bytes", v |-> <<>>]
\* truth value of a bytes object: `if byte:`
Truthy(b) == Len(b.v) > 0
\* `x in list`: some element equal to x
PyIn(x, list) == \E e \in list : e = x

BAUDRATES ==
  << "110", "300", "600", "1200", "1800", "2400", "3600", "4800", "7200",
     "9600", "14400", "19200", "28800", "31250", "38400", "57600", "76800",
     "115200", "128000", "153600", "230400", "250000", "256000", "307200",
     "345600", "460800", "500000", "512000", "921600", "1024000", "2000000",
     "2500000", "3000000", "3686400" >>
\* len(self.BAUDRATES)
NRates == Len(BAUDRATES)
\* self.BAUDRATES[i], with Python's indexing from 0 and from the end
RateAt(i) == BAUDRATES[IF i < 0 THEN NRates + i + 1 ELSE i + 1]

UPKEYS == {Str(117), Str(85), Str(65)}
DOWNKEYS == {Str(100), Str(68), Str(66)}
\* '\x03'
CTRL_C == Str(3)
WHITESPACE == {Str(32), Str(9), Str(13), Str(10)}
PUNCTUATION == {Str(46), Str(44), Str(58), Str(59), Str(63), Str(33)}
VOWELS == {Str(97), Str(65), Str(101), Str(69), Str(105), Str(73),
           Str(111), Str(79), Str(117), Str(85)}
\* _gen_char_list: chr(x) for '!'..'~', then the whitespace characters
valid_characters == {Str(x) : x \in 33..126} \cup WHITESPACE

\* what serial.read(1) hands back when data arrives: ' ' ',' 'a' 'x' 0xFF
ChannelBytes == {Bytes(32), Bytes(44), Bytes(97), Bytes(120), Bytes(255)}
\* what the console hands back: 'u' 'A' 'd' ^C 'x'
ConsoleKeys == {Str(117), Str(65), Str(100), Str(3), Str(120)}

Tasks == {"main", "listener"}
NoRate == "None"

VARIABLES
  \* ---- Baudrate object
  auto_detect, threshold, index, ctlc, thread, serial, baudrate,
  \* ---- wall clock
  now,
  \* ---- main task: position and the locals of Detect
  pc, count, whitespace, punctuation, vowels, start_time, timed_out,
  clear_counters, exit, rate,
  \* ---- keypress thread: position, keys the console still holds (-1: any
  \*      number)
  lpc, keysLeft,
  \* ---- activation of NextBaudrate per task: position, argument, loaded value
  nbPc, nbArg, nbTmp,
  \* ---- history: cursor at the call of NextBaudrate, per task
  nbFrom,
  \* ---- history: bytes of the accepted set (by value) since the last clear
  vAcc,
  \* ---- history: the unbroken run of accepted bytes (by value) read at the
  \*      current rate: its length, what it holds, the cursor when it began
  seqLen, seqWs, seqPunct, seqVowel, seqIndex,
  \* ---- history: a rate switch happened since the engine last processed a byte
  switched,
  \* ---- history: windows timed out, NextBaudrate(-1) calls of the engine,
  \*      whether this iteration switched
  winTimeouts, engSwitches, iterSwitched,
  \* ---- history: cursor at the start of Detect, 'increase' keys, no
  \*      'decrease' key so far, the interrupt key was read
  index0, ups, onlyUps, intKey,
  \* ---- history: consecutive NextBaudrate(+1) calls and where they started
  runStart, runLen,
  \* ---- history: what the last read handed back ("none" before the first
  \*      read, "empty", "accepted" or "rejected" by byte value), and the
  \*      reads begun with the cancellation flag already set (2: two or more)
  lastRead, readsAfterCancel,
  \* ---- history: the cursors the engine has set the channel to in the
  \*      current round of the catalog (empty again once all have been set)
  selected

objVars == <<auto_detect, threshold, index, ctlc, thread, serial, baudrate>>
detectVars == <<count, whitespace, punctuation, vowels, start_time, timed_out,
                clear_counters, exit, rate>>
listenerVars == <<lpc, keysLeft>>
nbVars == <<nbPc, nbArg, nbTmp, nbFrom>>
valueHist == <<vAcc, seqLen, seqWs, seqPunct, seqVowel, seqIndex>>
switchHist == <<switched>>
windowHist == <<winTimeouts, engSwitches, iterSwitched>>
keyHist == <<index0, ups, onlyUps, intKey>>
runHist == <<runStart, runLen>>
readHist == <<lastRead, readsAfterCancel>>
roundHist == <<selected>>
vars == <<objVars, now, pc, detectVars, listenerVars, nbVars, valueHist,
          switchHist, windowHist, keyHist, runHist, readHist, roundHist>>

(***************************************************************************)
(* Baudrate.__init__: the state after construction.                        *)
(***************************************************************************)
Thresholds == {0, MaxThreshold}

HistInit ==
  /\ nbFrom = [t \in Tasks |-> 0]
  /\ vAcc = 0
  /\ seqLen = 0 /\ seqWs = FALSE /\ seqPunct = FALSE /\ seqVowel = FALSE
  /\ seqIndex = 0
  /\ switched = FALSE
  /\ winTimeouts = 0 /\ engSwitches = 0 /\ iterSwitched = FALSE
  /\ index0 = 0 /\ ups = 0 /\ onlyUps = TRUE /\ intKey = FALSE
  /\ runStart = 0 /\ runLen = 0
  /\ lastRead = "none" /\ readsAfterCancel = 0
  /\ selected = {}

LocalsInit ==
  /\ count = 0 /\ whitespace = 0 /\ punctuation = 0 /\ vowels = 0
  /\ start_time = 0 /\ timed_out = FALSE /\ clear_counters = FALSE

Init ==
  /\ auto_detect \in BOOLEAN
  /\ threshold \in Thresholds
  /\ index = NRates - 1
  /\ ctlc = FALSE
  /\ thread = FALSE
  /\ serial = "none"
  /\ baudrate = NoRate
  /\ now = 1
  /\ pc = "new"
  /\ LocalsInit
  /\ exit = "none" /\ rate = NoRate
  /\ lpc = "none" /\ keysLeft = MaxKeys
  /\ nbPc = [t \in Tasks |-> "idle"]
  /\ nbArg = [t \in Tasks |-> 0]
  /\ nbTmp = [t \in Tasks |-> 0]
  /\ HistInit

(***************************************************************************)
(* Baudrate.NextBaudrate(updn), run by task t.  `self.index += updn` is a  *)
(* load and a store; the wrap-around and the channel update follow.        *)
(***************************************************************************)
\* the call itself: the activation record of task t
CallNextBaudrate(t, updn) ==
  /\ nbPc' = [nbPc EXCEPT ![t] = "load"]
  /\ nbArg' = [nbArg EXCEPT ![t] = updn]
  /\ nbFrom' = [nbFrom EXCEPT ![t] = index]
  /\ UNCHANGED nbTmp

NextBaudrateLoad ==
  \E t \in Tasks :
    /\ nbPc[t] = "load"
    /\ nbTmp' = [nbTmp EXCEPT ![t] = index]
    /\ nbPc' = [nbPc EXCEPT ![t] = "store"]
    /\ UNCHANGED <<objVars, now, pc, detectVars, listenerVars, nbArg, nbFrom,
                   valueHist, switchHist, windowHist, keyHist, runHist, readHist, roundHist>>

NextBaudrateStore ==
  \E t \in Tasks :
    /\ nbPc[t] = "store"
    /\ index' = nbTmp[t] + nbArg[t]
    /\ nbPc' = [nbPc EXCEPT ![t] = "wrap"]
    /\ UNCHANGED <<auto_detect, threshold, ctlc, thread, serial, baudrate,
                   now, pc, detectVars, listenerVars, nbArg, nbTmp, nbFrom,
                   valueHist, switchHist, windowHist, keyHist, runHist, readHist, roundHist>>

\* a wrap-around that forgets the lower end
WrapNoLow(i) == IF i >= NRates THEN 0 ELSE i
\* a wrap-around that lands one past the first rate
WrapHighOff(i) == IF i >= NRates THEN 1 ELSE IF i < 0 THEN NRates - 1 ELSE i
\* a wrap-around that stays at the first rate
WrapStaysLow(i) == IF i >= NRates THEN 0 ELSE IF i < 0 THEN 0 ELSE i
\* lines 140-143
Wrap(i) == IF i >= NRates THEN 0 ELSE IF i < 0 THEN NRates - 1 ELSE i

NextBaudrateWrap ==
  \E t \in Tasks :
    /\ nbPc[t] = "wrap"
    /\ index' = Wrap(index)
    /\ nbPc' = [nbPc EXCEPT ![t] = "set"]
    /\ UNCHANGED <<auto_detect, threshold, ctlc, thread, serial, baudrate,
                   now, pc, detectVars, listenerVars, nbArg, nbTmp, nbFrom,
                   valueHist, switchHist, windowHist, keyHist, runHist, readHist, roundHist>>

\* where the main task goes on after NextBaudrate returns
MainAfterCall == IF pc = "open_nb" THEN "opened" ELSE "switched"

\* lines 145-149: flush, set the rate, flush; pyserial's flush raises on a
\* port that is not open, which ends the calling thread
NextBaudrateSet ==
  \E t \in Tasks :
    /\ nbPc[t] = "set"
    /\ nbPc' = [nbPc EXCEPT ![t] = "idle"]
    /\ IF serial = "open"
         THEN /\ baudrate' = RateAt(index)
              /\ switched' = (switched \/ nbArg[t] # 0)
              /\ IF t = "main"
                   THEN /\ pc' = MainAfterCall
                        /\ selected' =
                             IF selected \cup {index} = 0..(NRates - 1)
                               THEN {} ELSE selected \cup {index}
                        /\ UNCHANGED <<lpc, runLen>>
                   ELSE /\ lpc' = "test"
                        /\ runLen' = IF nbArg[t] = 1 THEN runLen + 1 ELSE runLen
                        /\ UNCHANGED <<pc, selected>>
              /\ UNCHANGED exit
         ELSE /\ IF t = "main"
                   THEN /\ pc' = "raised"
                        /\ exit' = "Failed"
                        /\ UNCHANGED lpc
                   ELSE /\ lpc' = "dead"
                        /\ UNCHANGED <<pc, exit>>
              /\ UNCHANGED <<baudrate, switched, runLen, selected>>
    /\ UNCHANGED <<auto_detect, threshold, index, ctlc, thread, serial, now,
                   count, whitespace, punctuation, vowels, start_time,
                   timed_out, clear_counters, rate, keysLeft, nbArg, nbTmp, nbFrom, valueHist,
                   windowHist, keyHist, runStart, readHist>>

(***************************************************************************)
(* Baudrate.Open, entered through __enter__.                               *)
(***************************************************************************)
Open ==
  /\ pc = "new"
  /\ serial' = "open"
  /\ baudrate' = "9600"
  /\ CallNextBaudrate("main", 0)
  /\ pc' = "open_nb"
  /\ UNCHANGED <<auto_detect, threshold, index, ctlc, thread, now, detectVars,
                 listenerVars, valueHist, switchHist, windowHist, keyHist,
                 runHist, readHist, roundHist>>

(***************************************************************************)
(* Baudrate.Detect, run by the main task.                                  *)
(***************************************************************************)
\* lines 152-162: the locals, and the keypress thread in manual mode
DetectStart ==
  /\ pc = "opened"
  /\ count' = 0 /\ whitespace' = 0 /\ punctuation' = 0 /\ vowels' = 0
  /\ start_time' = 0 /\ timed_out' = FALSE /\ clear_counters' = FALSE
  /\ IF ~auto_detect
       THEN thread' = TRUE /\ lpc' = "test"
       ELSE UNCHANGED <<thread, lpc>>
  /\ pc' = "top"
  /\ index0' = index
  /\ UNCHANGED <<auto_detect, threshold, index, ctlc, serial, baudrate, now,
                 exit, rate, keysLeft, nbVars, valueHist,
                 switchHist, windowHist, ups, onlyUps, intKey, runHist, readHist, roundHist>>

\* lines 165-166
LoopTop ==
  /\ pc = "top"
  /\ start_time' = IF start_time = 0 THEN now ELSE start_time
  /\ pc' = "read"
  /\ iterSwitched' = FALSE
  /\ UNCHANGED <<objVars, now, count, whitespace, punctuation, vowels,
                 timed_out, clear_counters, exit, rate, listenerVars,
                 nbVars, valueHist, switchHist, winTimeouts, engSwitches,
                 keyHist, runHist, readHist, roundHist>>

\* the accepted character set, by byte value
InAcceptedSet(b) == Truthy(b) /\ b.v[1] \in (33..126) \cup {32, 9, 13, 10}

\* line 168: the read raises; the exception leaves Detect
ReadFailure ==
  /\ pc = "read"
  /\ pc' = "raised"
  /\ exit' = "Failed"
  /\ UNCHANGED <<objVars, now, count, whitespace, punctuation, vowels,
                 start_time, timed_out, clear_counters, rate, listenerVars, nbVars, valueHist,
                 switchHist, windowHist, keyHist, runHist, readHist, roundHist>>

\* a test that lets manual mode accumulate
AcceptsInManual(b) == ~auto_detect \/ PyIn(b, valid_characters)
\* line 171
Accepts(b) == auto_detect /\ PyIn(b, valid_characters)

\* a success test that looks at the total alone
OnlyTotal(c, w, p, v) == c >= threshold
\* line 185
isDetectionSatisfied(c, w, p, v) == c >= threshold /\ w > 0 /\ p > 0 /\ v > 0

\* lines 168-190: serial.read(1) blocks for d ticks and hands back b (data
\* arrives before the channel's timeout, or the read comes back empty when
\* it has passed); then the byte is classified, success is tested, then the
\* timeout
ReadByte ==
  /\ pc = "read"
  /\ \E d \in 0..Timeout, b \in ChannelBytes \cup {EmptyBytes} :
       /\ now + d <= MaxTime
       /\ IF d < Timeout THEN b # EmptyBytes ELSE b = EmptyBytes
       /\ Truthy(b) => count <= MaxThreshold
       /\ InAcceptedSet(b) => seqLen <= MaxThreshold
       /\ now' = now + d
       /\ LET acc == Truthy(b) /\ Accepts(b)
              isW == PyIn(b, WHITESPACE)
              isP == ~isW /\ PyIn(b, PUNCTUATION)
              isV == ~isW /\ ~isP /\ PyIn(b, VOWELS)
              c2 == IF acc THEN count + 1 ELSE count
              w2 == IF acc /\ isW THEN whitespace + 1 ELSE whitespace
              p2 == IF acc /\ isP THEN punctuation + 1 ELSE punctuation
              v2 == IF acc /\ isV THEN vowels + 1 ELSE vowels
              found == Truthy(b) /\ isDetectionSatisfied(c2, w2, p2, v2)
              late == IF Truthy(b)
                        THEN ~found /\ (now' - start_time) >= Timeout
                        ELSE TRUE
              val == auto_detect /\ InAcceptedSet(b)
          IN  /\ count' = c2 /\ whitespace' = w2 /\ punctuation' = p2
              /\ vowels' = v2
              /\ clear_counters' = (clear_counters \/ (Truthy(b) /\ ~acc))
              /\ timed_out' = (timed_out \/ late)
              /\ IF found THEN exit' = "Detected" /\ pc' = "ret"
                          ELSE exit' = exit /\ pc' = "switch"
              /\ winTimeouts' = IF late /\ auto_detect THEN winTimeouts + 1
                                                       ELSE winTimeouts
              /\ switched' = IF Truthy(b) THEN FALSE ELSE switched
              /\ vAcc' = IF val THEN vAcc + 1 ELSE vAcc
              /\ IF val
                   THEN /\ seqLen' = seqLen + 1
                        /\ seqWs' = (seqWs \/ b.v[1] \in {32, 9, 13, 10})
                        /\ seqPunct' = (seqPunct \/ b.v[1] \in
                                          {46, 44, 58, 59, 63, 33})
                        /\ seqVowel' = (seqVowel \/ b.v[1] \in
                                          {97, 65, 101, 69, 105, 73, 111, 79,
                                           117, 85})
                        /\ seqIndex' = IF seqLen = 0 THEN index ELSE seqIndex
                   ELSE /\ seqLen' = 0 /\ seqWs' = FALSE /\ seqPunct' = FALSE
                        /\ seqVowel' = FALSE /\ seqIndex' = 0
              /\ lastRead' = IF ~Truthy(b) THEN "empty"
                              ELSE IF InAcceptedSet(b) THEN "accepted"
                              ELSE "rejected"
  /\ readsAfterCancel' = IF ctlc /\ readsAfterCancel < 2
                          THEN readsAfterCancel + 1 ELSE readsAfterCancel
  /\ UNCHANGED <<objVars, start_time, rate, listenerVars, nbVars,
                 engSwitches, iterSwitched, keyHist, runHist, roundHist>>

\* lines 192-194: on a timeout in automatic mode, restart the window and
\* step the cursor down
\* a test that forgets the timeout
ShouldSwitchAlways == auto_detect
\* a test that forgets the mode
ShouldSwitchAnyMode == timed_out
\* line 192
ShouldSwitch == timed_out /\ auto_detect

Switch ==
  /\ pc = "switch"
  /\ IF ShouldSwitch
       THEN /\ start_time' = 0
            /\ CallNextBaudrate("main", -1)
            /\ pc' = "switch_nb"
            /\ engSwitches' = engSwitches + 1
            /\ iterSwitched' = TRUE
       ELSE /\ pc' = "clear"
            /\ UNCHANGED <<start_time, nbVars, engSwitches, iterSwitched>>
  /\ UNCHANGED <<objVars, now, count, whitespace, punctuation, vowels,
                 timed_out, clear_counters, exit, rate, listenerVars,
                 valueHist, switchHist, winTimeouts, keyHist, runHist, readHist, roundHist>>

\* lines 195-196
SwitchDone ==
  /\ pc = "switched"
  /\ clear_counters' = TRUE
  /\ timed_out' = FALSE
  /\ pc' = "clear"
  /\ UNCHANGED <<objVars, now, count, whitespace, punctuation, vowels,
                 start_time, exit, rate, listenerVars, nbVars,
                 valueHist, switchHist, windowHist, keyHist, runHist, readHist, roundHist>>

\* lines 198-203
Clear ==
  /\ pc = "clear"
  /\ IF clear_counters
       THEN /\ whitespace' = 0 /\ punctuation' = 0 /\ vowels' = 0 /\ count' = 0
            /\ clear_counters' = FALSE
            /\ vAcc' = 0
       ELSE UNCHANGED <<whitespace, punctuation, vowels, count,
                        clear_counters, vAcc>>
  /\ IF iterSwitched
       THEN /\ seqLen' = 0 /\ seqWs' = FALSE /\ seqPunct' = FALSE
            /\ seqVowel' = FALSE /\ seqIndex' = 0
       ELSE UNCHANGED <<seqLen, seqWs, seqPunct, seqVowel, seqIndex>>
  /\ pc' = "ctlc"
  /\ UNCHANGED <<objVars, now, start_time, timed_out, exit, rate,
                 listenerVars, nbVars, switchHist, windowHist,
                 keyHist, runHist, readHist, roundHist>>

\* a test that never sees the flag
CancelIgnored == FALSE
\* line 205
CancelSeen == ctlc

\* lines 205-206
CheckCancel ==
  /\ pc = "ctlc"
  /\ IF CancelSeen THEN exit' = "Cancelled" /\ pc' = "ret"
             ELSE exit' = exit /\ pc' = "top"
  /\ UNCHANGED <<objVars, now, count, whitespace, punctuation, vowels,
                 start_time, timed_out, clear_counters, rate,
                 listenerVars, nbVars, valueHist, switchHist, windowHist,
                 keyHist, runHist, readHist, roundHist>>

\* a return that hands back nothing after a cancellation
ReturnNoneOnCancel == IF exit = "Cancelled" THEN NoRate ELSE RateAt(index)
\* line 208
ReturnValue == RateAt(index)

Return ==
  /\ pc = "ret"
  /\ rate' = ReturnValue
  /\ pc' = "returned"
  /\ UNCHANGED <<objVars, now, count, whitespace, punctuation, vowels,
                 start_time, timed_out, clear_counters, exit,
                 listenerVars, nbVars, valueHist, switchHist, windowHist,
                 keyHist, runHist, readHist, roundHist>>

(***************************************************************************)
(* Baudrate.Close, entered through __exit__ once Detect has returned or    *)
(* raised.                                                                 *)
(***************************************************************************)
\* a Close that takes the flag back
CloseFlagReset == FALSE
\* line 247
CloseFlag == TRUE

\* a Close that runs only after Detect has returned
CloseOnReturnOnly == {"returned"}
\* lines 128-130 and 290: __exit__ runs however the body of `with` is left
CloseOn == {"returned", "raised"}

Close ==
  /\ pc \in CloseOn
  /\ ctlc' = CloseFlag
  /\ serial' = "closed"
  /\ pc' = "closed"
  /\ UNCHANGED <<auto_detect, threshold, index, thread, baudrate, now,
                 detectVars, listenerVars, nbVars, valueHist, switchHist,
                 windowHist, keyHist, runHist, readHist, roundHist>>

(***************************************************************************)
(* Baudrate.HandleKeypress, run by the keypress thread.                    *)
(***************************************************************************)
\* line 212
ListenerTest ==
  /\ lpc = "test"
  /\ lpc' = IF ctlc THEN "done" ELSE "key"
  /\ UNCHANGED <<objVars, now, pc, detectVars, keysLeft, nbVars,
                 valueHist, switchHist, windowHist, keyHist, runHist, readHist, roundHist>>

\* lines 213-219: one key from the console and what it does
ListenerKey ==
  /\ lpc = "key"
  /\ keysLeft # 0
  /\ \E k \in ConsoleKeys :
       /\ keysLeft' = IF keysLeft > 0 THEN keysLeft - 1 ELSE keysLeft
       /\ IF PyIn(k, UPKEYS)
            THEN /\ CallNextBaudrate("listener", 1)
                 /\ lpc' = "nb"
                 /\ ups' = IF onlyUps THEN (ups + 1) % NRates ELSE ups
                 /\ runStart' = IF runLen \in {0, NRates} THEN index ELSE runStart
                 /\ runLen' = IF runLen = NRates THEN 0 ELSE runLen
                 /\ UNCHANGED <<ctlc, index0, onlyUps, intKey>>
            ELSE IF PyIn(k, DOWNKEYS)
            THEN /\ CallNextBaudrate("listener", -1)
                 /\ lpc' = "nb"
                 /\ onlyUps' = FALSE /\ ups' = 0 /\ index0' = 0
                 /\ runLen' = 0 /\ runStart' = 0
                 /\ UNCHANGED <<ctlc, intKey>>
            ELSE IF k = CTRL_C
            THEN /\ ctlc' = TRUE
                 /\ lpc' = "test"
                 /\ intKey' = TRUE
                 /\ UNCHANGED <<nbVars, index0, ups, onlyUps, runHist>>
            ELSE /\ lpc' = "test"
                 /\ UNCHANGED <<ctlc, nbVars, keyHist, runHist>>
  /\ UNCHANGED <<auto_detect, threshold, index, thread, serial, baudrate,
                 now, pc, detectVars, valueHist, switchHist, windowHist,
                 readHist, roundHist>>

(***************************************************************************)
(* The program: construction, Open, Detect with the keypress thread next   *)
(* to it, Close.                                                           *)
(***************************************************************************)
Next ==
  \/ Open
  \/ NextBaudrateLoad
  \/ NextBaudrateStore
  \/ NextBaudrateWrap
  \/ NextBaudrateSet
  \/ DetectStart
  \/ LoopTop
  \/ ReadByte
  \/ ReadFailure
  \/ Switch
  \/ SwitchDone
  \/ Clear
  \/ CheckCancel
  \/ Return
  \/ Close
  \/ ListenerTest
  \/ ListenerKey

Spec == Init /\ [][Next]_vars

(***************************************************************************)
(* Scheduling.  The main task is never blocked for good: serial.read comes *)
(* back once the channel's timeout has passed, and nothing else in Detect, *)
(* NextBaudrate or Close waits.  The keypress thread waits only for the    *)
(* operator's key, which may never come.                                   *)
(***************************************************************************)
MainNextBaudrate ==
  /\ nbPc["main"] # "idle"
  /\ \/ NextBaudrateLoad \/ NextBaudrateStore \/ NextBaudrateWrap
     \/ NextBaudrateSet
  /\ nbPc'["listener"] = nbPc["listener"]

ListenerNextBaudrate ==
  /\ nbPc["listener"] # "idle"
  /\ \/ NextBaudrateLoad \/ NextBaudrateStore \/ NextBaudrateWrap
     \/ NextBaudrateSet
  /\ nbPc'["main"] = nbPc["main"]

MainStep ==
  \/ Open \/ DetectStart \/ LoopTop \/ ReadByte \/ Switch \/ SwitchDone
  \/ Clear \/ CheckCancel \/ Return \/ Close \/ MainNextBaudrate

ListenerStep == ListenerTest \/ ListenerNextBaudrate

FairSpec == Spec /\ WF_vars(MainStep) /\ WF_vars(ListenerStep)

(***************************************************************************)
(* The cursor on its own: manual mode, the engine waiting in its read, the *)
(* operator typing, from every position of the cursor.                     *)
(***************************************************************************)
InitCursor ==
  /\ auto_detect = FALSE
  /\ threshold \in Thresholds
  /\ index \in 0..(NRates - 1)
  /\ ctlc = FALSE
  /\ thread = TRUE
  /\ serial = "open"
  /\ baudrate = RateAt(index)
  /\ now = 1
  /\ pc = "read"
  /\ LocalsInit
  /\ exit = "none" /\ rate = NoRate
  /\ lpc = "test" /\ keysLeft = -1
  /\ nbPc = [t \in Tasks |-> "idle"]
  /\ nbArg = [t \in Tasks |-> 0]
  /\ nbTmp = [t \in Tasks |-> 0]
  /\ nbFrom = [t \in Tasks |-> 0]
  /\ vAcc = 0
  /\ seqLen = 0 /\ seqWs = FALSE /\ seqPunct = FALSE /\ seqVowel = FALSE
  /\ seqIndex = 0
  /\ switched = FALSE
  /\ winTimeouts = 0 /\ engSwitches = 0 /\ iterSwitched = FALSE
  /\ index0 = index /\ ups = 0 /\ onlyUps = TRUE /\ intKey = FALSE
  /\ runStart = 0 /\ runLen = 0
  /\ lastRead = "none" /\ readsAfterCancel = 0
  /\ selected = {}

NextCursor ==
  \/ ListenerTest
  \/ ListenerKey
  \/ NextBaudrateLoad
  \/ NextBaudrateStore
  \/ NextBaudrateWrap
  \/ NextBaudrateSet

SpecCursor == InitCursor /\ [][NextCursor]_vars

(***************************************************************************)
(* Automatic mode without an end of time.  Detect reads the clock only as  *)
(* the difference time.time() - start_time (lines 166 and 187), so moving  *)
(* the origin of the clock changes nothing the program can see; the        *)
(* history counters of the windows are kept modulo the catalog length.     *)
(***************************************************************************)
InitAuto == Init /\ auto_detect

Rebase ==
  /\ LET k == (IF start_time = 0 THEN now ELSE start_time) - 1
         m == IF winTimeouts >= NRates /\ engSwitches >= NRates
                THEN NRates ELSE 0
     IN  /\ k > 0 \/ m > 0
         /\ now' = now - k
         /\ start_time' = IF start_time = 0 THEN 0 ELSE start_time - k
         /\ winTimeouts' = winTimeouts - m
         /\ engSwitches' = engSwitches - m
  /\ UNCHANGED <<objVars, pc, count, whitespace, punctuation, vowels,
                 timed_out, clear_counters, exit, rate, listenerVars, nbVars,
                 valueHist, switchHist, iterSwitched, keyHist, runHist,
                 readHist, roundHist>>

NextAuto ==
  \/ Open
  \/ NextBaudrateLoad
  \/ NextBaudrateStore
  \/ NextBaudrateWrap
  \/ NextBaudrateSet
  \/ DetectStart
  \/ LoopTop
  \/ ReadByte
  \/ ReadFailure
  \/ Switch
  \/ SwitchDone
  \/ Clear
  \/ CheckCancel
  \/ Close
  \/ Rebase

\* the steps of the main task that nothing holds up
EngineStep ==
  \/ Open \/ DetectStart \/ LoopTop \/ ReadByte \/ Switch \/ SwitchDone
  \/ Clear \/ CheckCancel \/ Close \/ MainNextBaudrate

\* a read during which the clock moves on
TimePasses == ReadByte /\ now' > now

\* the engine keeps running, and the clock does not stand still for ever
\* while reads go on
FairSpecAuto ==
  /\ InitAuto /\ [][NextAuto]_vars
  /\ WF_vars(EngineStep) /\ WF_vars(Rebase) /\ SF_vars(TimePasses)

(***************************************************************************)
(* Properties.                                                             *)
(***************************************************************************)
\* the success condition of line 185 on the current counters
Satisfied ==
  count >= threshold /\ whitespace > 0 /\ punctuation > 0 /\ vowels > 0

\* C1: Detect leaves its loop as Detected exactly when the counters, right
\* after a byte has been processed, satisfy the four-way condition: it has
\* gone on past line 186 only with the condition false, and it is never
\* Detected with a category counter at zero.
C1_DetectedIffSatisfied ==
  /\ pc = "switch" => ~Satisfied
  /\ exit = "Detected" =>
       (count >= threshold /\ whitespace > 0 /\ punctuation > 0 /\ vowels > 0)

\* C1 witness: a run of vowels at least as long as a positive threshold has
\* been processed in automatic mode and the engine scans on.
C1_Witness ==
  /\ auto_detect /\ threshold > 0 /\ pc = "switch" /\ exit = "none"
  /\ seqLen >= threshold /\ seqVowel /\ ~seqWs /\ ~seqPunct

\* C2 (as claimed): in automatic mode, once an unbroken run of accepted bytes
\* at least threshold long, holding a whitespace, a punctuation and a vowel
\* byte, has been processed before the window timed out, Detect has ended as
\* Detected, and what it returns is the rate selected when the run began.
C2_RunIsDetected ==
  (auto_detect /\ seqLen >= threshold /\ seqWs /\ seqPunct /\ seqVowel
     /\ ~timed_out /\ pc # "read")
    => /\ exit = "Detected"
       /\ pc = "returned" => rate = RateAt(seqIndex)

\* C3 (as claimed): the cursor is a valid index in every reachable state.
C3_CursorAlwaysValid == index \in 0..(NRates - 1)

\* C3 (amended): the cursor is a valid index whenever no task stands between
\* the increment (line 138) and the wrap-around (lines 140-143).
C3_CursorValidOutsideWrap ==
  (\A t \in Tasks : nbPc[t] # "wrap") => index \in 0..(NRates - 1)

\* C3 witness: a call that stepped past the last rate has wrapped to 0.
C3_Witness ==
  /\ nbPc["listener"] = "set" /\ nbFrom["listener"] = NRates - 1
  /\ nbArg["listener"] = 1 /\ index = 0

C5_CyclicClosure ==
  (runLen = NRates /\ nbPc["listener"] = "idle") => index = runStart

\* C5 witness: a full cycle of +1 calls from a cursor in the middle.
C5_Witness ==
  runLen = NRates /\ nbPc["listener"] = "idle" /\ runStart = 5 /\ index = 5

\* C6 (as claimed): in automatic mode, right after a byte is processed, count
\* is the number of bytes of the accepted set read since the last clear.
C6_CountIsAcceptedBytes ==
  (auto_detect /\ pc \in {"switch", "ret"}) => count = vAcc

\* C7: once the rate has been switched, by the engine or by the keypress
\* thread, the four counters are zero when the engine takes up its next byte.
C7_CountersZeroAfterSwitch ==
  (pc = "read" /\ switched)
    => (count = 0 /\ whitespace = 0 /\ punctuation = 0 /\ vowels = 0)

\* C7 witness: the operator has switched the rate while the engine, which
\* has processed bytes for a while, waits for its next byte.
C7_Witness ==
  /\ ~auto_detect /\ pc = "read" /\ switched /\ now > 1
  /\ nbPc["listener"] = "idle" /\ index # index0

\* C8: in automatic mode every window that times out is answered by exactly
\* one NextBaudrate(-1): the cursor has moved one step per timed-out window,
\* the window start is unset when the switch is done, and the engine goes
\* back to the top of the loop.
C8_OneStepPerTimeout ==
  auto_detect =>
    /\ pc \in {"top", "read"} =>
         /\ engSwitches = winTimeouts
         /\ index = (NRates - 1 - engSwitches) % NRates
         /\ baudrate = RateAt(index)
    /\ pc = "switch" => winTimeouts = engSwitches + (IF timed_out THEN 1 ELSE 0)
    /\ (iterSwitched /\ pc \in {"switch_nb", "switched", "clear", "ctlc", "top"})
         => start_time = 0
    /\ exit \notin {"Cancelled"}
    /\ pc \in {"open_nb", "opened", "new"} => engSwitches = 0

\* C8 witness: two windows have timed out and the engine reads at the rate
\* two steps down.
C8_Witness ==
  /\ auto_detect /\ pc = "read" /\ winTimeouts = 2 /\ engSwitches = 2
  /\ index = NRates - 3

\* C9: in manual mode, k 'increase' keys and then the interrupt key leave the
\* cursor at (initial + k) mod length with the flag set and Detect never
\* Detected; the keypress thread ends, and Detect ends as Cancelled unless a
\* failed read has ended it before.
C9_Safety ==
  (~auto_detect /\ intKey /\ onlyUps) =>
    /\ ctlc
    /\ index = (index0 + ups) % NRates
    /\ exit # "Detected"
    /\ lpc \in {"test", "done"}

C9_UpsThenInterrupt ==
  /\ []C9_Safety
  /\ (~auto_detect /\ intKey /\ onlyUps) ~> (lpc = "done")
  /\ (~auto_detect /\ intKey /\ onlyUps)
       ~> (exit \in {"Cancelled", "Failed"} /\ pc \in {"returned", "closed"})

\* C9 witness: two 'increase' keys from the last rate, then the interrupt
\* key, and Detect has returned as Cancelled.
C9_Witness ==
  /\ ~auto_detect /\ intKey /\ onlyUps /\ ups = 2 /\ index = 1
  /\ exit = "Cancelled" /\ pc = "returned" /\ lpc = "done"

C11_FlagMonotonic ==
  /\ (pc = "new" => ~ctlc)
  /\ [][ctlc => ctlc']_vars

\* C11 witness: the flag set by the interrupt key has gone through Close.
C11_Witness == ctlc /\ intKey /\ pc = "closed"

\* C13: once Open has opened the channel, every way out of Detect (a return
\* as Detected or Cancelled, a read that raised) is followed by Close: the
\* channel is open from Open until Close, the main task has ended only with
\* the channel closed, and every return or raise leads to the closed channel.
C13_Safety ==
  /\ pc \in {"open_nb", "opened", "top", "read", "switch", "switch_nb",
             "switched", "clear", "ctlc", "ret", "returned", "raised"}
       => serial = "open"
  /\ pc = "closed" => serial = "closed"

C13_ClosedOnEveryExit ==
  /\ []C13_Safety
  /\ (pc \in {"returned", "raised"}) ~> (pc = "closed" /\ serial = "closed")

\* C13 witness: a read has raised out of Detect and the channel is closed.
C13_Witness == exit = "Failed" /\ pc = "closed" /\ serial = "closed"

\* C13 witness (second case): Detect has returned as Cancelled and the channel
\* is closed.
C13_WitnessCancelled ==
  exit = "Cancelled" /\ pc = "closed" /\ serial = "closed"

\* C14 (as claimed): in manual mode a byte of the accepted set handed back by
\* the channel is counted and does not mark the counters for clearing.
C14_ManualAccumulates ==
  (~auto_detect /\ pc = "switch" /\ lastRead = "accepted")
    => (count > 0 /\ ~clear_counters)

\* C14 (amended): in manual mode every byte handed back by the channel marks
\* the counters for clearing (the else branch of line 171), the four counters
\* stay at zero, and Detect never ends as Detected.
C14_ManualAlwaysClears ==
  ~auto_detect =>
    /\ (pc = "switch" /\ lastRead \in {"accepted", "rejected"})
         => clear_counters
    /\ count = 0 /\ whitespace = 0 /\ punctuation = 0 /\ vowels = 0
    /\ exit # "Detected"

\* C14 witness: manual mode, a byte of the accepted set has just been
\* processed and the counters are marked for clearing.
C14_Witness ==
  /\ ~auto_detect /\ pc = "switch" /\ lastRead = "accepted"
  /\ clear_counters /\ count = 0

\* C15: in manual mode a timeout in the engine (a window that ran out or an
\* empty read) changes neither the cursor nor the channel's rate and the
\* engine scans on: the engine never calls NextBaudrate once Open is done,
\* its step past the timeout test goes straight to the clearing of the
\* counters with the cursor, the rate and the timeout mark as they were, and
\* every change of the cursor or the rate is a step of the keypress thread's
\* NextBaudrate.
C15_EngineNeverSwitches ==
  (~auto_detect /\ pc \notin {"new", "open_nb"})
    => (nbPc["main"] = "idle" /\ engSwitches = 0 /\ ~iterSwitched)

C15_ManualTimeoutKeepsRate ==
  /\ []C15_EngineNeverSwitches
  /\ [][(~auto_detect /\ pc = "switch" /\ timed_out /\ pc' # pc)
          => (pc' = "clear" /\ index' = index /\ baudrate' = baudrate
              /\ timed_out' /\ nbPc' = nbPc)]_vars
  /\ [][(~auto_detect /\ pc \notin {"new", "open_nb"}
           /\ (index' # index \/ baudrate' # baudrate))
          => (nbPc["listener"] # "idle" /\ nbPc'["main"] = nbPc["main"]
              /\ pc' = pc)]_vars

\* C15 witness: manual mode, the window has timed out, the engine has gone on
\* to the next read and the cursor is where Open left it.
C15_Witness ==
  /\ ~auto_detect /\ timed_out /\ pc = "read" /\ lastRead = "empty"
  /\ engSwitches = 0 /\ index = NRates - 1 /\ baudrate = RateAt(NRates - 1)
  /\ now > 1

\* a byte outside the accepted set was the last thing read in automatic mode
RejectedRead == auto_detect /\ lastRead = "rejected"

\* C16: in automatic mode a byte outside the accepted set, read in a window
\* that has not timed out, marks the counters for clearing; the engine goes
\* past the timeout test without switching, the four counters are zero when
\* it reaches the next read, and on the way the window start and the cursor
\* stay as they were.  The window start is unset only by the step that
\* begins a rate switch.
C16_CountersCleared ==
  /\ (RejectedRead /\ pc = "switch") => clear_counters
  /\ (RejectedRead /\ pc \in {"ctlc", "top", "read"})
       => (count = 0 /\ whitespace = 0 /\ punctuation = 0 /\ vowels = 0
           /\ ~clear_counters)

C16_RejectedByteClearsOnly ==
  /\ []C16_CountersCleared
  /\ [][(RejectedRead /\ pc = "switch" /\ ~timed_out /\ pc' # pc)
          => (pc' = "clear" /\ ~iterSwitched' /\ start_time' = start_time
              /\ index' = index /\ baudrate' = baudrate)]_vars
  /\ [][(RejectedRead /\ pc \in {"clear", "ctlc", "top"} /\ ~iterSwitched)
          => (start_time' = start_time /\ start_time # 0
              /\ index' = index /\ baudrate' = baudrate)]_vars
  /\ [][(start_time # 0 /\ start_time' = 0)
          => (pc = "switch" /\ timed_out /\ auto_detect
              /\ pc' = "switch_nb")]_vars

\* C16 witness: the byte 0xFF was read before the window ran out; the engine
\* is back at its read with the window still running from where it began.
C16_Witness ==
  /\ RejectedRead /\ pc = "read" /\ engSwitches = 0 /\ count = 0
  /\ start_time = 1 /\ now = 1 /\ index = NRates - 1

\* C17: the engine and the keypress thread are never inside NextBaudrate at
\* the same time: no step of one task falls between the load of the cursor
\* and the end of the set-rate of the other, so every call leaves the cursor
\* one step from where the call found it and sets the channel to the rate at
\* that cursor.
C17_OneTaskInside ==
  /\ ~(nbPc["main"] # "idle" /\ nbPc["listener"] # "idle")
  /\ \A t \in Tasks :
       /\ nbPc[t] = "store" => nbTmp[t] = index
       /\ nbPc[t] \in {"load", "store"} => index = nbFrom[t]
       /\ nbPc[t] = "wrap" => index = nbFrom[t] + nbArg[t]
       /\ nbPc[t] = "set" => index = Wrap(nbFrom[t] + nbArg[t])

C17_NextBaudrateIndivisible ==
  /\ []C17_OneTaskInside
  /\ [][(\E t \in Tasks : nbPc[t] = "set" /\ nbPc'[t] = "idle"
                           /\ serial = "open")
          => baudrate' = RateAt(index)]_vars
  /\ [][(nbPc["listener"] # "idle" /\ pc' # pc)
          => (index' = index /\ baudrate' = baudrate
              /\ nbPc'["main"] = "idle")]_vars

\* C17 witness: the keypress thread is between its increment and its wrap
\* while the engine, whose window has timed out, is at the test of line 192.
C17_Witness ==
  /\ nbPc["listener"] = "wrap" /\ nbPc["main"] = "idle"
  /\ pc = "switch" /\ timed_out /\ ~auto_detect

\* C18: the engine polls the flag once per iteration, at the end: with the
\* flag set it begins at most one more read, the poll that sees the flag
\* leaves the loop, no read is begun after that, and Detect has then
\* returned (or a read has raised) within the steps of one iteration.
C18_AtMostOneRead ==
  /\ readsAfterCancel <= 1
  /\ (exit = "Cancelled") => (ctlc /\ pc \in {"ret", "returned", "closed"})

C18_CancelWithinOneIteration ==
  /\ []C18_AtMostOneRead
  /\ [][(pc = "ctlc" /\ ctlc /\ pc' # pc)
          => (pc' = "ret" /\ exit' = "Cancelled")]_vars
  /\ [][(ctlc /\ pc = "ctlc") => readsAfterCancel' = readsAfterCancel]_vars
  /\ [][(pc \in {"clear", "ctlc", "read", "switch"} /\ pc' = "top")
          => (pc = "ctlc" /\ ~ctlc)]_vars
  /\ (ctlc /\ pc \in {"top", "read", "switch", "clear", "ctlc"})
       ~> (pc \in {"returned", "raised", "closed"})

\* C18 witness: the interrupt key came while the engine was on its way to a
\* read; that one read was made and Detect has returned as Cancelled.
C18_Witness ==
  /\ readsAfterCancel = 1 /\ intKey /\ exit = "Cancelled" /\ pc = "returned"

\* C19 (as claimed): once the channel is closed the keypress thread does not
\* enter NextBaudrate, the cursor does not change, and no flush or set-rate
\* is attempted on the channel.
C19_NoCallAfterClose ==
  [][serial = "closed" =>
       /\ (nbPc["listener"] = "idle" => nbPc'["listener"] = "idle")
       /\ index' = index
       /\ ~(nbPc["listener"] = "set" /\ nbPc'["listener"] = "idle")]_vars

\* C20 (as claimed): from the end of Open on, whenever no task is inside
\* NextBaudrate, the rate set on the channel is the catalog rate at the
\* cursor, and the rate Detect returns is the rate the channel is set to.
C20_RateMatchesCursor ==
  (pc \notin {"new", "open_nb"} /\ \A t \in Tasks : nbPc[t] = "idle")
    => /\ baudrate = RateAt(index)
       /\ pc = "returned" => rate = baudrate

\* C20 holds for as long as the channel is open.
C20_RateMatchesCursorWhileOpen ==
  (serial = "open" /\ pc \notin {"new", "open_nb"}
     /\ \A t \in Tasks : nbPc[t] = "idle")
    => /\ baudrate = RateAt(index)
       /\ pc = "returned" => rate = baudrate

\* C12: in automatic mode Detect has no exit of its own for a timeout: its
\* loop is left only as Detected or Cancelled, or by a read that raises.
\* For as long as none of these happens the engine goes on switching, and
\* with the engine running and the clock moving every rate of the catalog is
\* set on the channel and read at again and again.
C12_ExitsOnly ==
  /\ pc \in {"ret", "returned"} => exit \in {"Detected", "Cancelled"}
  /\ pc = "raised" => exit = "Failed"
  /\ pc = "closed" => exit \in {"Detected", "Cancelled", "Failed"}
  /\ exit \in {"none", "Detected", "Cancelled", "Failed"}

\* the engine has just set the rate that completes a round of the catalog
RoundDone == selected = {} /\ pc = "switched" /\ baudrate = RateAt(index)

C12_CyclesForever ==
  /\ []C12_ExitsOnly
  /\ [](selected \subseteq {i \in 0..(NRates - 1) : i >= index})
  /\ <>(exit # "none") \/ []<>RoundDone

\* C12 witness: the engine has gone once round the catalog and reads again
\* at the rate one step down from the last.
C12_Witness ==
  /\ auto_detect /\ pc = "read" /\ exit = "none"
  /\ engSwitches = NRates + 1 /\ index = NRates - 2
  /\ baudrate = RateAt(NRates - 2) /\ selected = {NRates - 1, NRates - 2}

=============================================================================
